---- MODULE Spec2Model ----
(***************************************************************************)
(* Model of run_vqa.py: the start-up of main(), the training loop with     *)
(* gradient accumulation, the end-of-epoch evaluate-and-checkpoint cycle,  *)
(* the pure helpers compute_score_with_logits and lr_lambda_update, and    *)
(* the loop of a group of processes in distributed mode.                   *)
(*                                                                         *)
(* One run of main() is one behaviour.  The command line (args) and the    *)
(* machine (env) are chosen in Init; the sizes of the two datasets are     *)
(* chosen when the datasets are loaded.  Every action is one block of      *)
(* main() executed without interruption; an uncaught exception ends the    *)
(* run in pc = "Failed" with the exception's type in error, and leaves the *)
(* other variables as they were when the exception was raised.             *)
(***************************************************************************)
EXTENDS Integers, Sequences, FiniteSets, TLC

\* ------------------------------------------------------------------ bounds
MaxK == 3
MaxBatchSize == 3
MaxEpochs == 2
MaxTrainLen == 4
MaxEvalLen == 1
MaxWorld == 2
MaxDevices == 2
MaxScoreBatch == 2
MaxLossPeriod == 2

\* ------------------------------------------------------- program constants
\* the static loss scale passed with --loss_scale (any positive value)
StaticScale == 128
\* the scale FP16_Optimizer(dynamic_loss_scale=True) starts from
InitDynamicScale == 4
\* "if step % 20 == 0 and step != 0"
LogEvery == 20
\* the value 1 that scatter_ writes, in the fixed-point unit of the weights
One == 10
\* the multiplier 1.0 of lr_lambda_update, in its fixed-point unit
LrOne == 10000

VARIABLES
    pc,          \* position of main()
    error,       \* type of the uncaught exception, "" while there is none
    args,        \* the parsed command line (train_batch_size is rewritten)
    env,         \* the machine: visible devices, size of the process group
    timeStamp,   \* main()'s local timeStamp
    savePath,    \* main()'s local savePath
    device,      \* the selected device, "none" before the selection
    process_group, \* TRUE once torch.distributed.init_process_group ran
    n_gpu,
    train_len,   \* len(train_dset)
    eval_len,    \* len(eval_dset)
    num_train_optimization_steps,
    warmup_linear, \* "unbound" until line 370 assigns the local
    model,       \* [wrapped, mode, params]: params counts the updates applied
    cur_scale,   \* the loss scale held by FP16_Optimizer
    epochId,
    step,        \* enumerate() index of the next micro-batch of the epoch
    global_step,
    grads,       \* micro-batches whose gradients are summed in the buffer
    overflow,    \* TRUE iff the buffer holds a non-finite gradient
    lr,          \* param_group["lr"]: <<global_step, planned steps>> it was set from
    files,       \* the checkpoint files: name -> content
    fires,       \* history: calls of optimizer.step()
    processed,   \* history: micro-batches whose backward pass ran
    saves,       \* history: calls of torch.save
    epochLog,    \* history: what the current epoch did, in order
    pred,        \* compute_score_with_logits: the batch of logits
    target,      \* compute_score_with_logits: the batch of target weights
    argmax,      \* the class torch.max picked for each example
    scores,      \* the matrix compute_score_with_logits returned
    i_iter,      \* lr_lambda_update: the iteration it is called with
    lr_factor,   \* lr_lambda_update: the multiplier returned, in 1 / LrOne
    losses,      \* the losses of the epoch's micro-batches, by index
    gradbuf,     \* the gradient buffer: sum of the backward passes' losses
    rawbuf,      \* history: sum of the undivided losses behind gradbuf
    stepped,     \* history: what the last optimizer step was given
    loss_tmp,    \* the smoothing accumulator of the periodic log
    logN,        \* history: number of losses summed in loss_tmp
    smoothed,    \* history: the last emission of the periodic log
    lastOps,     \* history: the fire branch's operations in the last iteration
    bufEpochs,   \* history: the epochs whose micro-batches are in the buffer
    procs        \* distributed mode: the loop position of every process

vars == <<pc, error, args, env, timeStamp, savePath, device, process_group,
          n_gpu, train_len, eval_len, num_train_optimization_steps,
          warmup_linear, model, cur_scale, epochId, step, global_step, grads,
          overflow, lr, files, fires, processed, saves, epochLog,
          pred, target, argmax, scores, i_iter, lr_factor, losses, gradbuf,
          rawbuf, stepped, loss_tmp, logN, smoothed, lastOps, bufEpochs,
          procs>>

scoreVars == <<pred, target, argmax, scores>>

lrVars == <<i_iter, lr_factor>>

\* the variables main() does not touch
sideVars == <<scoreVars, lrVars, procs>>

\* the gradient and logging state of the training loop
accVars == <<losses, gradbuf, rawbuf, stepped, loss_tmp, logN, smoothed,
             lastOps, bufEpochs>>

\* what the steps of main() outside the micro-batch loop leave alone
quietVars == <<sideVars, accVars>>

\* the loop's gradient and logging state before the loop
AccIdle ==
    /\ losses = <<>>
    /\ gradbuf = 0
    /\ rawbuf = 0
    /\ stepped = [n |-> 0, grad |-> 0, raw |-> 0, applied |-> 0,
                  epoch |-> 0, epochs |-> {}]
    /\ bufEpochs = {}
    /\ loss_tmp = 0
    /\ logN = 0
    /\ smoothed = [sum |-> 0, n |-> 0]
    /\ lastOps = <<>>

\* no group of processes is modelled
DistIdle == procs = <<>>

\* the helpers' variables while no helper runs
LrIdle == i_iter = 0 /\ lr_factor = 0

\* ---------------------------------------------------------------- helpers
NoError == [type |-> "", at |-> ""]

RECURSIVE Factorial(_)
Factorial(n) == IF n = 0 THEN 1 ELSE n * Factorial(n - 1)

Max(a, b) == IF a >= b THEN a ELSE b

\* ceil(a / b) for b > 0: len(DataLoader) with drop_last = False
CeilDiv(a, b) == (a + b - 1) \div b

\* the lengths a training set is loaded with: short ones, and one long enough
\* for the periodic log of line 477 to fire (more than LogEvery micro-batches)
TrainLens == (0 .. MaxTrainLen) \cup {LogEvery + 2}

\* len(train_dataloader)
NumBatches == CeilDiv(train_len, args.train_batch_size)

K == args.gradient_accumulation_steps

Dynamic == args.fp16 /\ args.loss_scale = 0

\* ------------------------------------------------------------------- Init
ArgsSet ==
    [gradient_accumulation_steps : (-1) .. MaxK,
     train_batch_size : 1 .. MaxBatchSize,
     num_train_epochs : 0 .. MaxEpochs,
     fp16 : BOOLEAN,
     loss_scale : {0, StaticScale},
     local_rank : {-1, 0},
     save_name : {"", "run"}]

EnvSet == [device_count : 1 .. MaxDevices, world_size : 1 .. MaxWorld]

Init ==
    /\ pc = "Parsed"
    /\ error = NoError
    /\ args \in {a \in ArgsSet : ~a.fp16 => a.loss_scale = 0}
    /\ env \in {e \in EnvSet : (args.local_rank = -1 => e.world_size = 1)
                               /\ (args.local_rank # -1 => e.device_count = 1)}
    /\ timeStamp = ""
    /\ savePath = ""
    /\ device = "none"
    /\ process_group = FALSE
    /\ n_gpu = 0
    /\ train_len = 0
    /\ eval_len = 0
    /\ num_train_optimization_steps = 0
    /\ warmup_linear = "unbound"
    /\ model = [wrapped |-> FALSE, mode |-> "train", params |-> 0]
    /\ cur_scale = 1
    /\ epochId = 0
    /\ step = 0
    /\ global_step = 0
    /\ grads = 0
    /\ overflow = FALSE
    /\ lr = <<>>
    /\ files = <<>>
    /\ fires = 0
    /\ processed = 0
    /\ saves = 0
    /\ epochLog = <<>>
    /\ pred = <<>>
    /\ target = <<>>
    /\ argmax = <<>>
    /\ scores = <<>>
    /\ LrIdle
    /\ AccIdle
    /\ DistIdle

\* an uncaught exception of type e raised in block at ends the run
Fail(e, at) == pc' = "Failed" /\ error' = [type |-> e, at |-> at]

\* ---------------------------------------------------------------- startup
\* lines 191-222: the run identifier, the run directory, the device
RunId(save_name) == IF save_name # "" THEN save_name ELSE "generated"

Startup ==
    /\ pc = "Parsed"
    /\ timeStamp' = RunId(args.save_name)
    /\ savePath' = <<"save", timeStamp'>>
    /\ IF args.local_rank = -1
         THEN /\ device' = "cuda"
              /\ n_gpu' = env.device_count
              /\ process_group' = FALSE
         ELSE /\ device' = "cuda:local_rank"
              /\ n_gpu' = 1
              /\ process_group' = TRUE
    /\ pc' = "DeviceReady"
    /\ UNCHANGED <<error, args, env, train_len, eval_len,
                   num_train_optimization_steps, warmup_linear, model,
                   cur_scale, epochId, step, global_step, grads, overflow, lr,
                   files, fires, processed, saves, epochLog>>
    /\ UNCHANGED quietVars

\* an accumulation check that lets the factor 0 through
NegativeAccumulation(k) == k < 0

\* line 224: "if args.gradient_accumulation_steps < 1"
InvalidAccumulation(k) == k < 1

\* lines 224-231: the accumulation check, then the micro-batch size
\* train_batch_size // gradient_accumulation_steps (which divides by zero if a
\* factor of 0 gets past the check)
CheckAccumulation ==
    /\ pc = "DeviceReady"
    /\ IF InvalidAccumulation(K)
         THEN /\ Fail("ValueError", "CheckAccumulation")
              /\ args' = args
         ELSE IF K = 0
           THEN /\ Fail("ZeroDivisionError", "CheckAccumulation")
                /\ args' = args
           ELSE /\ args' = [args EXCEPT !.train_batch_size =
                                args.train_batch_size \div K]
                /\ pc' = "Checked"
                /\ error' = error
    /\ UNCHANGED <<env, timeStamp, savePath, device, process_group, n_gpu,
                   train_len, eval_len, num_train_optimization_steps,
                   warmup_linear, model, cur_scale, epochId, step, global_step,
                   grads, overflow, lr, files, fires, processed, saves,
                   epochLog>>
    /\ UNCHANGED quietVars

\* lines 280-287: int(len(train_dset) / batch / K) * epochs, per process
PlannedSteps(len, batch, k, epochs, distributed, world) ==
    LET perEpoch == len \div (batch * k)
        total == perEpoch * epochs
    IN IF distributed THEN total \div world ELSE total

\* lines 250-287: the datasets and the planned number of optimizer steps.
\* Lines 266 and 271 read image_features_reader_train, a name main() never
\* binds: the datasets exist only in a run whose module namespace binds it
\* (this action); the file as it stands raises (LoadDatasetsNameError).
LoadDatasets ==
    /\ pc = "Checked"
    /\ \E tl \in TrainLens, el \in 0 .. MaxEvalLen :
         /\ train_len' = tl
         /\ eval_len' = el
         /\ IF args.train_batch_size = 0
              THEN /\ Fail("ZeroDivisionError", "LoadDatasets")
                   /\ UNCHANGED num_train_optimization_steps
              ELSE /\ num_train_optimization_steps' =
                        PlannedSteps(tl, args.train_batch_size, K,
                                     args.num_train_epochs,
                                     args.local_rank # -1, env.world_size)
                   /\ pc' = "Loaded"
                   /\ error' = error
    /\ UNCHANGED <<args, env, timeStamp, savePath, device, process_group,
                   n_gpu, warmup_linear, model, cur_scale, epochId, step,
                   global_step, grads, overflow, lr, files, fires, processed,
                   saves, epochLog>>
    /\ UNCHANGED quietVars

\* lines 264-273 as written: image_features_reader_train is assigned nowhere
LoadDatasetsNameError ==
    /\ pc = "Checked"
    /\ Fail("NameError", "LoadDatasets")
    /\ UNCHANGED <<args, env, timeStamp, savePath, device, process_group,
                   n_gpu, train_len, eval_len, num_train_optimization_steps,
                   warmup_linear, model, cur_scale, epochId, step, global_step,
                   grads, overflow, lr, files, fires, processed, saves,
                   epochLog>>
    /\ UNCHANGED quietVars

\* lines 289-382: the model, its wrapper, the optimizer and the schedule
BuildModel ==
    /\ pc = "Loaded"
    /\ model' = [model EXCEPT !.wrapped = (args.local_rank # -1 \/ n_gpu > 1)]
    /\ warmup_linear' = IF args.fp16 /\ args.loss_scale # 0
                          THEN "WarmupLinearSchedule" ELSE "unbound"
    /\ cur_scale' = IF ~args.fp16 THEN 1
                    ELSE IF args.loss_scale = 0 THEN InitDynamicScale
                    ELSE args.loss_scale
    /\ pc' = "Idle"
    /\ UNCHANGED <<error, args, env, timeStamp, savePath, device,
                   process_group, n_gpu, train_len, eval_len,
                   num_train_optimization_steps, epochId, step, global_step,
                   grads, overflow, lr, files, fires, processed, saves,
                   epochLog>>
    /\ UNCHANGED quietVars

\* line 435, 455: losses are fixed-point numbers in units of 1 / LossOne,
\* which every accumulation factor and 8 divide
LossOne == 8 * Factorial(MaxK)

\* the losses a micro-batch can have: 0.125 and 1.0
LossValues == {LossOne \div 8, LossOne}

\* the losses of the batches a pass over the loader yields, repeating with
\* period MaxLossPeriod
LossSeqs == [1 .. MaxLossPeriod -> LossValues]

\* line 435: the loss of the micro-batch of index s
Loss(s) == losses[(s % MaxLossPeriod) + 1]

\* lines 387-417: the loaders, the counters, model.train()
StartTraining ==
    /\ pc = "Idle"
    /\ global_step' = 0
    /\ model' = [model EXCEPT !.mode = "train"]
    /\ epochId' = 0
    /\ pc' = "Epoch"
    /\ UNCHANGED <<error, args, env, timeStamp, savePath, device,
                   process_group, n_gpu, train_len, eval_len,
                   num_train_optimization_steps, warmup_linear, cur_scale,
                   step, grads, overflow, lr, files, fires, processed, saves,
                   epochLog>>
    /\ losses' \in LossSeqs
    /\ loss_tmp' = 0
    /\ logN' = 0
    /\ UNCHANGED <<gradbuf, rawbuf, stepped, smoothed, lastOps, bufEpochs>>
    /\ UNCHANGED sideVars

\* ------------------------------------------------------------ the epoch loop
\* append e to a history unless it repeats the last entry
Note(log, e) == IF log # <<>> /\ log[Len(log)] = e THEN log ELSE Append(log, e)

\* an epoch start that leaves the buffer as the last epoch left it
KeepGrad(buf, empty) == buf

\* lines 424, 472: optimizer.zero_grad() empties the gradient buffer
ZeroGrad(buf, empty) == empty

\* lines 419-424: the next epoch starts; optimizer.zero_grad()
EpochStart ==
    /\ pc = "Epoch"
    /\ epochId < args.num_train_epochs
    /\ grads' = ZeroGrad(grads, 0)
    /\ overflow' = FALSE
    /\ step' = 0
    /\ epochLog' = <<>>
    /\ pc' = "MicroStep"
    /\ UNCHANGED <<error, args, env, timeStamp, savePath, device,
                   process_group, n_gpu, train_len, eval_len,
                   num_train_optimization_steps, warmup_linear, model,
                   cur_scale, epochId, global_step, lr, files, fires,
                   processed, saves>>
    /\ gradbuf' = ZeroGrad(gradbuf, 0)
    /\ rawbuf' = ZeroGrad(rawbuf, 0)
    /\ bufEpochs' = ZeroGrad(bufEpochs, {})
    /\ UNCHANGED <<losses, stepped, loss_tmp, logN, smoothed, lastOps>>
    /\ UNCHANGED sideVars

\* line 419: range(num_train_epochs) is exhausted
Finish ==
    /\ pc = "Epoch"
    /\ epochId >= args.num_train_epochs
    /\ pc' = "Done"
    /\ UNCHANGED <<error, args, env, timeStamp, savePath, device,
                   process_group, n_gpu, train_len, eval_len,
                   num_train_optimization_steps, warmup_linear, model,
                   cur_scale, epochId, step, global_step, grads, overflow, lr,
                   files, fires, processed, saves, epochLog>>
    /\ UNCHANGED quietVars

\* a fire signal that tests the index itself instead of the count
FireSignalOnIndex(s, k) == s % k = 0

\* line 459: "if (step + 1) % args.gradient_accumulation_steps == 0"
FireSignal(s, k) == (s + 1) % k = 0

\* a global step advanced outside the fire branch, once per micro-batch
AdvancePerMicroBatch(g, fire) == g + 1

\* lines 459, 473: "global_step += 1" inside the fire branch only
AdvanceGlobalStep(g, fire) == IF fire THEN g + 1 ELSE g

\* lines 460-465: what evaluating lr_this_step raises, "" if nothing
FireError ==
    IF ~args.fp16 THEN ""
    ELSE IF warmup_linear = "unbound" THEN "UnboundLocalError"
    ELSE IF num_train_optimization_steps = 0 THEN "ZeroDivisionError"
    ELSE ""

\* lines 477-497: the periodic log rebinds the local timeStamp
LogDue(s) == s % LogEvery = 0 /\ s # 0

LogTimeStamp(s, ts) == IF LogDue(s) THEN "clock" ELSE ts

\* the values a backward pass can leave in the buffer: finite, or (in reduced
\* precision) non-finite
NonFinite == IF args.fp16 THEN BOOLEAN ELSE {FALSE}

\* optimizer.step() of FP16_Optimizer / BertAdam: an overflow step under
\* dynamic scaling is skipped and halves the scale, never below 1
OptimizerStep(params, scale, dynamic, ovf) ==
    IF dynamic /\ ovf
      THEN [params |-> params, scale |-> Max(scale \div 2, 1)]
      ELSE [params |-> params + 1, scale |-> scale]

\* a backward pass on the undivided loss
UndividedLoss(loss, k) == loss

\* lines 444-445: "if K > 1: loss = loss / K", the loss given to backward()
ScaledLoss(loss, k) == IF k > 1 THEN loss \div k ELSE loss

\* line 469: the ceiling 0.25 of the gradient norm
ClipNorm == LossOne \div 4

\* a clip that comes too late for the step: the step sees the raw buffer
ClipAfterStep(g) == g

\* line 469: clip_grad_norm_(model.parameters(), 0.25) scales the buffer
\* down to the ceiling when its norm is above it, before optimizer.step()
ClipGradNorm(g) == IF g > ClipNorm THEN ClipNorm ELSE g

\* an overwrite in every precision mode
LrAtFireAlways(fp16, old, g, n) == <<g, n>>

\* lines 460-467: in reduced precision every param_group["lr"] becomes
\* learning_rate * warmup_linear(global_step / num_train_optimization_steps);
\* otherwise the loop leaves the optimizer's rate alone
LrAtFire(fp16, old, g, n) == IF fp16 THEN <<g, n>> ELSE old

\* lines 460-473: the operations of the fire branch, in program order
FireOps(fp16) ==
    (IF fp16 THEN <<"lr">> ELSE <<>>)
        \o <<"clip", "step", "zero_grad", "global_step">>

\* lines 455, 477-497: loss_tmp += loss.item(); when the log is due it emits
\* loss_tmp / 20 and resets the accumulator
LogLoss(s, tmp, n, sm, l) ==
    IF LogDue(s)
      THEN [loss_tmp |-> 0, logN |-> 0,
            smoothed |-> [sum |-> tmp + l, n |-> n + 1]]
      ELSE [loss_tmp |-> tmp + l, logN |-> n + 1, smoothed |-> sm]

\* lines 427-458, 477-497: a micro-batch that only accumulates
Accumulate ==
    /\ pc = "MicroStep"
    /\ step < NumBatches
    /\ ~FireSignal(step, K)
    /\ \E nf \in NonFinite :
         /\ grads' = grads + 1
         /\ overflow' = (overflow \/ nf)
    /\ processed' = processed + 1
    /\ epochLog' = Note(epochLog, <<"forward", model.mode>>)
    /\ timeStamp' = LogTimeStamp(step, timeStamp)
    /\ step' = step + 1
    /\ global_step' = AdvanceGlobalStep(global_step, FALSE)
    /\ gradbuf' = gradbuf + ScaledLoss(Loss(step), K)
    /\ rawbuf' = rawbuf + Loss(step)
    /\ LET log == LogLoss(step, loss_tmp, logN, smoothed,
                           ScaledLoss(Loss(step), K))
       IN /\ loss_tmp' = log.loss_tmp
          /\ logN' = log.logN
          /\ smoothed' = log.smoothed
    /\ lastOps' = <<>>
    /\ bufEpochs' = bufEpochs \cup {epochId}
    /\ UNCHANGED <<pc, error, args, env, savePath, device, process_group,
                   n_gpu, train_len, eval_len, num_train_optimization_steps,
                   warmup_linear, model, cur_scale, epochId, lr,
                   files, fires, saves, losses, stepped>>
    /\ UNCHANGED sideVars

\* lines 427-497: a micro-batch that completes a logical step
Fire ==
    /\ pc = "MicroStep"
    /\ step < NumBatches
    /\ FireSignal(step, K)
    /\ FireError = ""
    /\ \E nf \in NonFinite :
         LET r == OptimizerStep(model.params, cur_scale, Dynamic, overflow \/ nf)
         IN /\ model' = [model EXCEPT !.params = r.params]
            /\ cur_scale' = r.scale
    /\ lr' = LrAtFire(args.fp16, lr, global_step,
                       num_train_optimization_steps)
    /\ LET buf == gradbuf + ScaledLoss(Loss(step), K)
       IN stepped' = [n |-> grads + 1, grad |-> buf,
                      raw |-> rawbuf + Loss(step),
                      applied |-> ClipGradNorm(buf),
                      epoch |-> epochId,
                      epochs |-> bufEpochs \cup {epochId}]
    /\ gradbuf' = 0
    /\ rawbuf' = 0
    /\ bufEpochs' = {}
    /\ LET log == LogLoss(step, loss_tmp, logN, smoothed,
                           ScaledLoss(Loss(step), K))
       IN /\ loss_tmp' = log.loss_tmp
          /\ logN' = log.logN
          /\ smoothed' = log.smoothed
    /\ lastOps' = FireOps(args.fp16)
    /\ grads' = 0
    /\ overflow' = FALSE
    /\ global_step' = AdvanceGlobalStep(global_step, TRUE)
    /\ fires' = fires + 1
    /\ processed' = processed + 1
    /\ epochLog' = Note(epochLog, <<"forward", model.mode>>)
    /\ timeStamp' = LogTimeStamp(step, timeStamp)
    /\ step' = step + 1
    /\ UNCHANGED <<pc, error, args, env, savePath, device, process_group,
                   n_gpu, train_len, eval_len, num_train_optimization_steps,
                   warmup_linear, epochId, files, saves, losses>>
    /\ UNCHANGED sideVars

\* lines 427-465: the backward pass runs, then lr_this_step raises
FireAbort ==
    /\ pc = "MicroStep"
    /\ step < NumBatches
    /\ FireSignal(step, K)
    /\ FireError # ""
    /\ \E nf \in NonFinite :
         /\ grads' = grads + 1
         /\ overflow' = (overflow \/ nf)
    /\ processed' = processed + 1
    /\ epochLog' = Note(epochLog, <<"forward", model.mode>>)
    /\ Fail(FireError, "Fire")
    /\ UNCHANGED <<args, env, timeStamp, savePath, device, process_group,
                   n_gpu, train_len, eval_len, num_train_optimization_steps,
                   warmup_linear, model, cur_scale, epochId, step, global_step,
                   lr, files, fires, saves>>
    /\ gradbuf' = gradbuf + ScaledLoss(Loss(step), K)
    /\ rawbuf' = rawbuf + Loss(step)
    /\ loss_tmp' = loss_tmp + ScaledLoss(Loss(step), K)
    /\ logN' = logN + 1
    /\ lastOps' = <<>>
    /\ bufEpochs' = bufEpochs \cup {epochId}
    /\ UNCHANGED <<losses, stepped, smoothed>>
    /\ UNCHANGED sideVars

\* a mode switch that leaves the module as it is
TrainModeIgnored(m, mode) == m

\* lines 500, 502: model.train(mode) sets the training flag of the module
TrainMode(m, mode) == [m EXCEPT !.mode = IF mode THEN "train" ELSE "eval"]

\* lines 499-500: the epoch's batches are exhausted; the training score is
\* divided by len(train_dataloader.dataset); model.train(False)
EndOfEpoch ==
    /\ pc = "MicroStep"
    /\ step = NumBatches
    /\ IF train_len = 0
         THEN /\ Fail("ZeroDivisionError", "EndOfEpoch")
              /\ UNCHANGED <<model, epochLog>>
         ELSE /\ model' = TrainMode(model, FALSE)
              /\ epochLog' = Append(epochLog, <<"mode", "eval">>)
              /\ pc' = "Evaluate"
              /\ error' = error
    /\ UNCHANGED <<args, env, timeStamp, savePath, device, process_group,
                   n_gpu, train_len, eval_len, num_train_optimization_steps,
                   warmup_linear, cur_scale, epochId, step, global_step, grads,
                   overflow, lr, files, fires, processed, saves>>
    /\ UNCHANGED quietVars

\* lines 501, 529-545: evaluate(); the sums are divided by
\* len(dataloader.dataset)
Evaluate ==
    /\ pc = "Evaluate"
    /\ IF eval_len = 0
         THEN /\ Fail("ZeroDivisionError", "Evaluate")
              /\ UNCHANGED epochLog
         ELSE /\ epochLog' = Append(epochLog, <<"evaluate", model.mode>>)
              /\ pc' = "Evaluated"
              /\ error' = error
    /\ UNCHANGED <<args, env, timeStamp, savePath, device, process_group,
                   n_gpu, train_len, eval_len, num_train_optimization_steps,
                   warmup_linear, model, cur_scale, epochId, step, global_step,
                   grads, overflow, lr, files, fires, processed, saves>>
    /\ UNCHANGED quietVars

\* lines 502-506: model.train(True), the epoch summary
ResumeTraining ==
    /\ pc = "Evaluated"
    /\ model' = TrainMode(model, TRUE)
    /\ epochLog' = Append(epochLog, <<"mode", "train">>)
    /\ pc' = "Checkpoint"
    /\ UNCHANGED <<error, args, env, timeStamp, savePath, device,
                   process_group, n_gpu, train_len, eval_len,
                   num_train_optimization_steps, warmup_linear, cur_scale,
                   epochId, step, global_step, grads, overflow, lr, files,
                   fires, processed, saves>>
    /\ UNCHANGED quietVars

\* lines 510-512: "model.module if hasattr(model, 'module') else model"
ModelToSave(m) == IF m.wrapped THEN [m EXCEPT !.wrapped = FALSE] ELSE m

\* a checkpoint name without the epoch index
OutputModelFileFixed(path, epoch) == <<path, "pytorch_model", 0>>

\* line 516: os.path.join(savePath, "pytorch_model_" + str(epochId) + ".bin")
OutputModelFile(path, epoch) == <<path, "pytorch_model", epoch>>

\* torch.save(obj, name): creates the file or replaces its content
Save(fs, name, obj) ==
    [f \in (DOMAIN fs) \cup {name} |-> IF f = name THEN obj ELSE fs[f]]

\* lines 508-518: the checkpoint of the epoch; the epoch loop advances
Checkpoint ==
    /\ pc = "Checkpoint"
    /\ LET m == ModelToSave(model)
       IN files' = Save(files, OutputModelFile(savePath, epochId),
                        [wrapped |-> m.wrapped, params |-> m.params])
    /\ saves' = saves + 1
    /\ epochLog' = Append(epochLog, <<"checkpoint", epochId>>)
    /\ epochId' = epochId + 1
    /\ pc' = "Epoch"
    /\ UNCHANGED <<error, args, env, timeStamp, savePath, device,
                   process_group, n_gpu, train_len, eval_len,
                   num_train_optimization_steps, warmup_linear, model,
                   cur_scale, step, global_step, grads, overflow, lr, fires,
                   processed>>
    /\ UNCHANGED quietVars

\* ------------------------------------------- compute_score_with_logits
\* Weights and scores are fixed-point numbers in units of 1 / One; logits are
\* compared only, so they are in tenths.
Classes == 1 .. 3

\* the rows of logits tried: a single maximum, and a maximum held by two classes
LogitRows == {<<1, 9, 2>>, <<9, 1, 2>>, <<2, 9, 9>>}

LabelValues == {0, 3, One}

\* the rows of target weights tried: at most two candidate answers each
LabelRows ==
    {r \in [Classes -> LabelValues] : Cardinality({c \in Classes : r[c] # 0}) <= 2}

\* line 554: torch.max(logits, 1)[1], a class holding the row's maximum (which
\* one, when several do, is the library's choice)
Argmaxes(row) == {c \in Classes : \A d \in Classes : row[d] <= row[c]}

\* lines 555-556: a row of zeros with the value 1 scattered at class c
OneHot(c) == [d \in Classes |-> IF d = c THEN One ELSE 0]

\* a score that binarises the target weights before the product
compute_score_binarised(idx, labels) ==
    [i \in DOMAIN labels |->
        [c \in Classes |-> IF labels[i][c] # 0 THEN OneHot(idx[i])[c] ELSE 0]]

\* lines 553-558: one_hots * labels, for the picked classes idx
compute_score_with_logits(idx, labels) ==
    [i \in DOMAIN labels |->
        [c \in Classes |-> (OneHot(idx[i])[c] * labels[i][c]) \div One]]

RECURSIVE SumSeq(_)
SumSeq(s) == IF s = <<>> THEN 0 ELSE s[1] + SumSeq(Tail(s))

\* lines 436, 538: compute_score_with_logits(pred, target).sum()
BatchScore(m) == SumSeq([i \in DOMAIN m |-> SumSeq(m[i])])

ScoreInit ==
    /\ pc = "Score"
    /\ error = NoError
    /\ args = [gradient_accumulation_steps |-> 1, train_batch_size |-> 1,
               num_train_epochs |-> 0, fp16 |-> FALSE, loss_scale |-> 0,
               local_rank |-> -1, save_name |-> ""]
    /\ env = [device_count |-> 1, world_size |-> 1]
    /\ timeStamp = ""
    /\ savePath = ""
    /\ device = "none"
    /\ process_group = FALSE
    /\ n_gpu = 0
    /\ train_len = 0
    /\ eval_len = 0
    /\ num_train_optimization_steps = 0
    /\ warmup_linear = "unbound"
    /\ model = [wrapped |-> FALSE, mode |-> "train", params |-> 0]
    /\ cur_scale = 1
    /\ epochId = 0
    /\ step = 0
    /\ global_step = 0
    /\ grads = 0
    /\ overflow = FALSE
    /\ lr = <<>>
    /\ files = <<>>
    /\ fires = 0
    /\ processed = 0
    /\ saves = 0
    /\ epochLog = <<>>
    /\ pred = <<>>
    /\ target = <<>>
    /\ argmax = <<>>
    /\ scores = <<>>
    /\ LrIdle
    /\ AccIdle
    /\ DistIdle

\* lines 436, 538: the score of one batch of logits and target weights
ComputeScore ==
    /\ pc = "Score"
    /\ \E n \in 1 .. MaxScoreBatch :
         \E p \in [1 .. n -> LogitRows],
            t \in [1 .. n -> LabelRows] :
           \E idx \in [1 .. n -> Classes] :
              /\ \A i \in 1 .. n : idx[i] \in Argmaxes(p[i])
              /\ pred' = p
              /\ target' = t
              /\ argmax' = idx
              /\ scores' = compute_score_with_logits(idx, t)
    /\ pc' = "Scored"
    /\ UNCHANGED <<error, args, env, timeStamp, savePath, device,
                   process_group, n_gpu, train_len, eval_len,
                   num_train_optimization_steps, warmup_linear, model,
                   cur_scale, epochId, step, global_step, grads, overflow, lr,
                   files, fires, processed, saves, epochLog>>
    /\ UNCHANGED <<lrVars, accVars, procs>>

ScoreNext == ComputeScore

ScoreSpec == ScoreInit /\ [][ScoreNext]_vars

\* the variables of main() that the specifications of its parts leave at
\* their initial values
ParkedRun ==
    /\ error = NoError
    /\ timeStamp = ""
    /\ savePath = ""
    /\ device = "none"
    /\ process_group = FALSE
    /\ n_gpu = 0
    /\ eval_len = 0
    /\ model = [wrapped |-> FALSE, mode |-> "train", params |-> 0]
    /\ cur_scale = 1
    /\ epochId = 0
    /\ step = 0
    /\ global_step = 0
    /\ grads = 0
    /\ overflow = FALSE
    /\ lr = <<>>
    /\ files = <<>>
    /\ fires = 0
    /\ processed = 0
    /\ saves = 0
    /\ epochLog = <<>>

\* main()'s variables in a specification of a helper function, which leaves
\* them alone
Parked(p) ==
    /\ pc = p
    /\ args = [gradient_accumulation_steps |-> 1, train_batch_size |-> 1,
               num_train_epochs |-> 0, fp16 |-> FALSE, loss_scale |-> 0,
               local_rank |-> -1, save_name |-> ""]
    /\ env = [device_count |-> 1, world_size |-> 1]
    /\ train_len = 0
    /\ num_train_optimization_steps = 0
    /\ warmup_linear = "unbound"
    /\ ParkedRun

\* ------------------------------------------------------- lr_lambda_update
\* Multipliers are fixed-point numbers in units of 1 / LrOne, which represents
\* every value the function returns exactly.
\* line 561
warmup_iterations == 1000
\* line 562: 0.2
warmup_factor == 2000
\* line 563: lr_ratio = 0.1 = 1 / lr_ratio_inv
lr_ratio_inv == 10
\* line 564
lr_steps == <<15000, 18000, 20000, 21000>>

\* bisect(a, x) of a sorted list: the number of its elements <= x
bisect(a, x) == Cardinality({j \in DOMAIN a : a[j] <= x})

RECURSIVE TenTo(_)
TenTo(n) == IF n = 0 THEN 1 ELSE lr_ratio_inv * TenTo(n - 1)

\* pow(lr_ratio, idx)
PowRatio(idx) == LrOne \div TenTo(idx)

\* a warmup branch that adds alpha to the floor without scaling the floor down
lr_lambda_overshoot(i) ==
    IF i <= warmup_iterations
      THEN (warmup_factor * warmup_iterations + LrOne * i)
              \div warmup_iterations
      ELSE PowRatio(bisect(<<>>, i))

\* lines 560-570: alpha = i / warmup_iterations, warmup_factor * (1 - alpha)
\* + alpha; past warmup pow(lr_ratio, bisect([], i_iter))
lr_lambda_update(i) ==
    IF i <= warmup_iterations
      THEN (warmup_factor * (warmup_iterations - i) + LrOne * i)
              \div warmup_iterations
      ELSE PowRatio(bisect(<<>>, i))

\* the iterations tried: the whole warmup, and the neighbourhood of every
\* milestone
Iters ==
    (0 .. warmup_iterations + 1)
        \cup {lr_steps[j] + d : j \in DOMAIN lr_steps, d \in {-1, 0, 1}}
        \cup {19000}

LrInit ==
    /\ Parked("Schedule")
    /\ pred = <<>>
    /\ target = <<>>
    /\ argmax = <<>>
    /\ scores = <<>>
    /\ i_iter \in Iters
    /\ lr_factor = 0
    /\ AccIdle
    /\ DistIdle

\* one call of lr_lambda_update
ApplySchedule ==
    /\ pc = "Schedule"
    /\ lr_factor' = lr_lambda_update(i_iter)
    /\ pc' = "Scheduled"
    /\ UNCHANGED <<error, args, env, timeStamp, savePath, device,
                   process_group, n_gpu, train_len, eval_len,
                   num_train_optimization_steps, warmup_linear, model,
                   cur_scale, epochId, step, global_step, grads, overflow, lr,
                   files, fires, processed, saves, epochLog>>
    /\ UNCHANGED <<scoreVars, i_iter, accVars, procs>>

LrNext == ApplySchedule

LrSpec == LrInit /\ [][LrNext]_vars

\* ------------------------------------------- distributed-across-processes
\* Every process runs main() with the same arguments on the same dataset
\* (lines 264-273) behind apex's DistributedDataParallel (lines 302-309), whose
\* backward pass all-reduces the gradients: a collective that returns in a
\* process once every process of the group has entered it.
Ranks == 0 .. env.world_size - 1

\* a sampler that gives every process its share of the dataset, the shares
\* differing by one example when the world size does not divide the length
RankBatchesSharded(rank, len, mbs) ==
    CeilDiv((len \div env.world_size)
                + (IF rank < len % env.world_size THEN 1 ELSE 0), mbs)

\* lines 393-399: the loader of every process is built over the whole
\* dataset, without a sampler: len(train_dataloader) is the same in all
RankBatches(rank, len, mbs) == CeilDiv(len, mbs)

\* the processes that have entered their n-th all-reduce
Arrived(n) == {q \in Ranks : procs[q].syncs >= n}

DistInit ==
    /\ pc = "Distributed"
    /\ args \in {a \in ArgsSet : /\ a.gradient_accumulation_steps >= 1
                                 /\ a.local_rank = 0
                                 /\ a.save_name = ""
                                 /\ ~a.fp16 => a.loss_scale = 0}
    /\ env \in {e \in EnvSet : e.device_count = 1 /\ e.world_size > 1}
    /\ train_len \in TrainLens
    /\ num_train_optimization_steps =
          PlannedSteps(train_len, args.train_batch_size, K,
                       args.num_train_epochs, TRUE, env.world_size)
    /\ warmup_linear = IF args.fp16 /\ args.loss_scale # 0
                         THEN "WarmupLinearSchedule" ELSE "unbound"
    /\ ParkedRun
    /\ pred = <<>>
    /\ target = <<>>
    /\ argmax = <<>>
    /\ scores = <<>>
    /\ LrIdle
    /\ AccIdle
    /\ procs = [r \in Ranks |->
                  [pc |-> "loop", epoch |-> 0, step |-> 0, syncs |-> 0,
                   fires |-> 0, epochFires |-> <<>>]]

distFrame ==
    <<pc, error, args, env, timeStamp, savePath, device, process_group,
      n_gpu, train_len, eval_len, num_train_optimization_steps,
      warmup_linear, model, cur_scale, epochId, step, global_step, grads,
      overflow, lr, files, fires, processed, saves, epochLog, scoreVars,
      lrVars, accVars>>

\* lines 427-449: process r runs a micro-batch up to its backward pass and
\* enters the all-reduce
RankBackward(r) ==
    /\ pc = "Distributed"
    /\ procs[r].pc = "loop"
    /\ procs[r].epoch < args.num_train_epochs
    /\ procs[r].step < RankBatches(r, train_len, args.train_batch_size)
    /\ procs' = [procs EXCEPT ![r].pc = "allreduce",
                              ![r].syncs = procs[r].syncs + 1]
    /\ UNCHANGED distFrame

\* lines 455-473: the all-reduce of process r returns, every process having
\* entered it; the fire branch runs when the signal says so
RankStep(r) ==
    /\ pc = "Distributed"
    /\ procs[r].pc = "allreduce"
    /\ Arrived(procs[r].syncs) = Ranks
    /\ LET fire == FireSignal(procs[r].step, K)
       IN procs' =
            IF fire /\ FireError # ""
              THEN [procs EXCEPT ![r].pc = "failed"]
              ELSE [procs EXCEPT
                      ![r].pc = "loop",
                      ![r].step = procs[r].step + 1,
                      ![r].fires = AdvanceGlobalStep(procs[r].fires, fire)]
    /\ UNCHANGED distFrame

\* lines 499-518: the batches of process r are exhausted; it evaluates,
\* saves and goes to its next epoch
RankEndOfEpoch(r) ==
    /\ pc = "Distributed"
    /\ procs[r].pc = "loop"
    /\ procs[r].epoch < args.num_train_epochs
    /\ procs[r].step = RankBatches(r, train_len, args.train_batch_size)
    /\ procs' =
         IF train_len = 0
           THEN [procs EXCEPT ![r].pc = "failed"]
           ELSE [procs EXCEPT
                   ![r].epoch = procs[r].epoch + 1,
                   ![r].step = 0,
                   ![r].epochFires =
                       Append(procs[r].epochFires,
                              procs[r].fires - SumSeq(procs[r].epochFires))]
    /\ UNCHANGED distFrame

\* line 419: the epochs of process r are exhausted and it leaves the loop
RankFinish(r) ==
    /\ pc = "Distributed"
    /\ procs[r].pc = "loop"
    /\ procs[r].epoch >= args.num_train_epochs
    /\ procs' = [procs EXCEPT ![r].pc = "done"]
    /\ UNCHANGED distFrame

DistNext ==
    \E r \in Ranks :
        \/ RankBackward(r)
        \/ RankStep(r)
        \/ RankEndOfEpoch(r)
        \/ RankFinish(r)

\* every process keeps running while it can take a step
DistSpec == DistInit /\ [][DistNext]_vars /\ WF_vars(DistNext)

Next ==
    \/ Startup
    \/ CheckAccumulation
    \/ LoadDatasets
    \/ LoadDatasetsNameError
    \/ BuildModel
    \/ StartTraining
    \/ EpochStart
    \/ Accumulate
    \/ Fire
    \/ FireAbort
    \/ EndOfEpoch
    \/ Evaluate
    \/ ResumeTraining
    \/ Checkpoint
    \/ Finish

Spec == Init /\ [][Next]_vars

\* =================================================================== claims
\* the run has entered the epoch loop (and may have failed inside it)
LoopPcs == {"Epoch", "MicroStep", "Evaluate", "Evaluated", "Checkpoint", "Done"}

InLoop ==
    \/ pc \in LoopPcs
    \/ pc = "Failed" /\ error.at \in {"Fire", "EndOfEpoch", "Evaluate"}

\* micro-batch iterations of the current epoch that ran to completion
DoneInEpoch == IF pc \in {"Epoch", "Done"} THEN 0 ELSE step

\* ----------------------------------------------------------------------- C1
\* C1 as stated: once N micro-batches have been processed in the whole run,
\* the optimizer step has fired exactly floor(N / K) times.
C1_FiresFloorOfTotal ==
    (pc \in LoopPcs /\ K >= 1) => fires = processed \div K

\* C1 amended: the fire signal counts micro-batches per epoch.  After e
\* completed epochs of B micro-batches each and m completed iterations of the
\* current epoch, the optimizer step has fired e * floor(B / K) + floor(m / K)
\* times.
C1_FiresPerEpoch ==
    InLoop => fires = epochId * (NumBatches \div K) + DoneInEpoch \div K

\* C1 witness: a second epoch after a first one whose trailing micro-batches
\* never fired, so that the count differs from floor(N / K).
C1_Witness ==
    /\ pc = "MicroStep"
    /\ epochId >= 1
    /\ NumBatches % K # 0
    /\ step > 0
    /\ fires >= 1
    /\ fires # processed \div K

\* ----------------------------------------------------------------------- C2
\* C2: the global step index starts at 0 and equals, in every state, the
\* number of optimizer steps fired so far: it advances by one per completed
\* logical step and by nothing else (accumulate-only micro-batches,
\* evaluation, checkpoints, epoch boundaries).
C2_GlobalStepCountsFires == global_step = fires

\* C2 witness: in a later epoch, after fires, an accumulate-only micro-batch
\* has just been processed and a checkpoint exists.
C2_Witness ==
    /\ pc = "MicroStep"
    /\ epochId >= 1
    /\ global_step >= 2
    /\ grads >= 1
    /\ saves >= 1

\* ----------------------------------------------------------------------- C3
\* C3: in every state of the training loop the number of micro-batches whose
\* gradients are in the buffer is in [0, K).
C3_MicroIndexInRange == InLoop => (grads >= 0 /\ grads < K)

\* ----------------------------------------------------------------------- C4
\* C4: for every precision mode and every K >= 1, no run aborts at a fire
\* because the learning-rate schedule is unbound.
C4_NoAbortAtFire ==
    ~(pc = "Failed" /\ error = [type |-> "UnboundLocalError", at |-> "Fire"])

\* ----------------------------------------------------------------------- C5
\* C5: under dynamic loss scaling a logical step whose gradients are
\* non-finite does not terminate the run, and the scale stays >= 1.
C5_OverflowStepContinues ==
    /\ cur_scale >= 1
    /\ ~(Dynamic /\ overflow /\ pc = "Failed" /\ error.at = "Fire")

\* ----------------------------------------------------------------------- C6
\* C6: after e completed epochs the checkpoint files are exactly those of
\* epochs 0 .. e-1 under the run directory fixed at startup, one torch.save per
\* epoch; each holds the unwrapped model, and the newest one the parameters
\* the model had when its epoch ended.
C6_OneCheckpointPerEpoch ==
    InLoop =>
        /\ savePath = <<"save", RunId(args.save_name)>>
        /\ saves = epochId
        /\ DOMAIN files =
              {<<savePath, "pytorch_model", e>> : e \in 0 .. epochId - 1}
        /\ \A e \in 0 .. epochId - 1 :
             /\ ~files[<<savePath, "pytorch_model", e>>].wrapped
             /\ files[<<savePath, "pytorch_model", e>>].params <= model.params
        /\ (pc \in {"Epoch", "Done"} /\ epochId >= 1) =>
             files[<<savePath, "pytorch_model", epochId - 1>>].params
                = model.params

\* C6 witness: two epochs are checkpointed, the model is wrapped, its
\* parameters changed between the two checkpoints, and the periodic log has
\* rebound timeStamp.
C6_Witness ==
    /\ pc = "Done"
    /\ epochId = 2
    /\ Cardinality(DOMAIN files) = 2
    /\ model.wrapped
    /\ model.params >= 2
    /\ timeStamp = "clock"

\* ----------------------------------------------------------------------- C7
\* C7: every epoch whose micro-batches are exhausted, an epoch with zero
\* micro-batches included, goes on to evaluation and to its checkpoint: the
\* run does not end between the last micro-batch and the evaluation.
C7_CheckpointNeverSkipped == ~(pc = "Failed" /\ error.at = "EndOfEpoch")

\* ----------------------------------------------------------------------- C8
\* C8: a run with an accumulation factor < 1 never gets past the accumulation
\* check: it ends there with the ValueError, and no micro-batch, optimizer
\* step, evaluation or checkpoint happens.
C8_InvalidAccumulationRejected ==
    K < 1 =>
        /\ \/ pc \in {"Parsed", "DeviceReady"}
           \/ pc = "Failed"
              /\ error = [type |-> "ValueError", at |-> "CheckAccumulation"]
        /\ processed = 0
        /\ fires = 0
        /\ saves = 0
        /\ files = <<>>
        /\ epochLog = <<>>

\* C8 witness: a run with factor 0 has been rejected.
C8_Witness ==
    /\ K = 0
    /\ pc = "Failed"
    /\ error.type = "ValueError"

\* ----------------------------------------------------------------------- C9
\* C9: when the accumulation check rejects the configuration, no CUDA device
\* has been set for the process and no process group has been initialised.
C9_ErrorBeforeDevice ==
    (pc = "Failed" /\ error.at = "CheckAccumulation")
        => (device # "cuda:local_rank" /\ ~process_group)

\* ---------------------------------------------------------------------- C10
\* the examples of the batch whose picked class has a nonzero target weight
Hits == {i \in DOMAIN target : target[i][argmax[i]] # 0}

\* C10 as stated: the match score of a batch is the number of examples whose
\* argmax class has a nonzero target weight.
C10_ScoreIsBinary ==
    pc = "Scored" => BatchScore(scores) = One * Cardinality(Hits)

\* C10 amended: each example contributes the target weight of its argmax
\* class (1 for weight 1, 0 for weight 0, the fractional weight otherwise),
\* and nothing for any other class; targets [0,1,0] score 1 with logits
\* [0.1,0.9,0.2] and 0 with logits [0.9,0.1,0.2].
C10_ScoreIsWeightAtArgmax ==
    pc = "Scored" =>
        /\ BatchScore(scores) =
              SumSeq([i \in DOMAIN target |-> target[i][argmax[i]]])
        /\ \A i \in DOMAIN target :
              /\ target[i] = <<0, One, 0>> /\ pred[i] = <<1, 9, 2>>
                    => SumSeq(scores[i]) = One
              /\ target[i] = <<0, One, 0>> /\ pred[i] = <<9, 1, 2>>
                    => SumSeq(scores[i]) = 0

\* C10 witness: a batch of two whose first example hits a class of fractional
\* weight and whose second is the example of weight 1.
C10_Witness ==
    /\ pc = "Scored"
    /\ Len(target) = 2
    /\ target[1][argmax[1]] = 3
    /\ target[2] = <<0, One, 0>>
    /\ pred[2] = <<1, 9, 2>>
    /\ BatchScore(scores) = One + 3

\* C11 as stated: past warmup the multiplier is the decay ratio raised to the
\* number of milestones of [15000, 18000, 20000, 21000] that are less than or
\* equal to the iteration, an iteration on a milestone counting as past it.
C11_ExponentCountsMilestones ==
    pc = "Scheduled" /\ i_iter > warmup_iterations =>
        lr_factor = PowRatio(Cardinality({j \in DOMAIN lr_steps :
                                            lr_steps[j] <= i_iter}))

\* C12 as stated: the multiplier is 1.0 at iteration 14999, 0.1 at 15000,
\* 0.1 at 19000 and 0.0001 at 21000.
C12_MilestoneExamples ==
    pc = "Scheduled" =>
        /\ i_iter = 14999 => lr_factor = LrOne
        /\ i_iter = 15000 => 10 * lr_factor = LrOne
        /\ i_iter = 19000 => 10 * lr_factor = LrOne
        /\ i_iter = 21000 => 10000 * lr_factor = LrOne

\* C13: the warmup branch at the last warmup iteration and the decay branch
\* at the iteration after it both give 1.0, and within warmup the multiplier
\* lies on the straight line from the floor at iteration 0 to 1.0 at the last
\* warmup iteration and grows with every iteration.
C13_ContinuousLinearWarmup ==
    pc = "Scheduled" =>
        /\ i_iter = warmup_iterations => lr_factor = LrOne
        /\ i_iter = warmup_iterations + 1 => lr_factor = LrOne
        /\ i_iter = 0 => lr_factor = warmup_factor
        /\ i_iter <= warmup_iterations =>
              warmup_iterations * lr_factor =
                  warmup_iterations * warmup_factor
                      + i_iter * (LrOne - warmup_factor)
        /\ i_iter < warmup_iterations =>
              lr_factor < lr_lambda_update(i_iter + 1)

\* C13 witness: the schedule has been evaluated at the last warmup iteration
\* and returned 1.0.
C13_Witness ==
    /\ pc = "Scheduled"
    /\ i_iter = warmup_iterations
    /\ lr_factor = LrOne

\* C14: a run of the evaluator changes neither the parameters, the gradient
\* buffer, the optimizer's overflow state and learning rate, the loss scale
\* nor the global step; it runs with the module in evaluation mode, which is
\* what makes its scores a function of the parameters and the held-out set;
\* the step after it puts the module back in training mode with the same
\* parameters.
C14_EvaluatorFrame ==
    [][/\ pc = "Evaluate" =>
            /\ model.mode = "eval"
            /\ UNCHANGED <<model, grads, overflow, cur_scale, lr,
                           global_step>>
       /\ pc = "Evaluated" =>
            /\ model'.mode = "train"
            /\ model'.params = model.params
            /\ UNCHANGED <<grads, overflow, cur_scale, lr, global_step>>]_vars

\* C14 witness: an evaluation has run on a model whose parameters were
\* stepped, with gradients of a trailing micro-batch in the buffer, and the
\* module is back in training mode.
C14_Witness ==
    /\ pc = "Checkpoint"
    /\ model.mode = "train"
    /\ model.params >= 1
    /\ grads >= 1
    /\ \E i \in DOMAIN epochLog : epochLog[i] = <<"evaluate", "eval">>

\* the loop is about to run the micro-batch of index step
AtMicroBatch == pc = "MicroStep" /\ step < NumBatches

\* C15: every backward pass is given the micro-batch loss divided by K (the
\* loss itself for K = 1), so the buffer holds the sum of the undivided
\* losses divided by K, and the gradient every optimizer step is given is the
\* mean of the K micro-batch gradients of its logical step.
C15_BackwardLossIsMean ==
    K >= 1 =>
        /\ K * gradbuf = rawbuf
        /\ fires > 0 => stepped.n = K /\ K * stepped.grad = stepped.raw

\* C15 witness: with K = 2 a step has fired on two micro-batches of different
\* losses.
C15_Witness ==
    /\ K = 2
    /\ fires > 0
    /\ stepped.n = 2
    /\ stepped.raw = LossOne + (LossOne \div 8)
    /\ 2 * stepped.grad = stepped.raw

\* C16 as stated: on every fire, in every precision mode, the operations are
\* clip, learning rate, optimizer step, gradient clear, global-step advance,
\* in this order, and an accumulate-only micro-batch does none of them.
C16_ClipThenRateThenStep ==
    [][AtMicroBatch =>
          IF FireSignal(step, K)
            THEN lastOps' =
                    <<"clip", "lr", "step", "zero_grad", "global_step">>
            ELSE lastOps' = <<>>]_vars

\* C16 amended: a fire that completes overwrites the learning rate first (in
\* reduced precision only), then clips the gradient norm to 0.25, steps the
\* optimizer on the clipped gradient, clears the gradients and advances the
\* global step; an accumulate-only micro-batch, and a fire whose
\* learning-rate computation raises, does none of these.
C16_RateThenClipThenStep ==
    [][AtMicroBatch =>
          IF FireSignal(step, K) /\ pc' = "MicroStep"
            THEN /\ lastOps' =
                      IF args.fp16
                        THEN <<"lr", "clip", "step", "zero_grad",
                               "global_step">>
                        ELSE <<"clip", "step", "zero_grad", "global_step">>
                 /\ stepped'.applied =
                      IF stepped'.grad > ClipNorm THEN ClipNorm
                      ELSE stepped'.grad
                 /\ gradbuf' = 0
                 /\ global_step' = global_step + 1
            ELSE /\ lastOps' = <<>>
                 /\ gradbuf' > gradbuf
                 /\ UNCHANGED <<stepped, model, global_step>>]_vars

\* C16 witness: a reduced-precision fire whose accumulated gradient was above
\* the ceiling has stepped on the clipped gradient.
C16_Witness ==
    /\ pc = "MicroStep"
    /\ args.fp16
    /\ lastOps = <<"lr", "clip", "step", "zero_grad", "global_step">>
    /\ stepped.grad > ClipNorm
    /\ stepped.applied = ClipNorm

\* C17 as stated: the loop overwrites the learning rate with the schedule's
\* rate at every fire, in every precision mode, and never on an
\* accumulate-only micro-batch.
C17_RateOverwrittenAtEveryFire ==
    [][AtMicroBatch =>
          IF FireSignal(step, K)
            THEN lr' = <<global_step, num_train_optimization_steps>>
            ELSE lr' = lr]_vars

\* C17 amended: the loop overwrites the learning rate only in reduced
\* precision, at every fire that completes, with the schedule's rate at
\* progress global_step / num_train_optimization_steps; in full precision,
\* on an accumulate-only micro-batch, on a fire that raises and outside the
\* micro-batch loop it leaves the rate alone.
C17_RateOverwrittenInReducedPrecision ==
    [][IF AtMicroBatch /\ FireSignal(step, K) /\ args.fp16
            /\ pc' = "MicroStep"
         THEN lr' = <<global_step, num_train_optimization_steps>>
         ELSE lr' = lr]_vars

\* C17 witness: the second fire of a reduced-precision run has overwritten
\* the rate at progress 1 / num_train_optimization_steps.
C17_Witness ==
    /\ pc = "MicroStep"
    /\ args.fp16
    /\ fires = 2
    /\ lr = <<1, num_train_optimization_steps>>

\* C18 as stated: the progress passed to the schedule at a fire is in [0, 1],
\* and the global step never exceeds the planned number of optimizer steps.
C18_ProgressInUnitInterval ==
    /\ lr # <<>> => lr[1] <= lr[2]
    /\ InLoop => global_step <= num_train_optimization_steps

\* C19 as stated: every emission of the periodic log averages exactly the 20
\* micro-batch losses since the previous emission (or since the start), and
\* leaves the accumulator empty.
C19_SmoothedOverTwentyLosses ==
    /\ smoothed.n # 0 => smoothed.n = LogEvery
    /\ InLoop /\ logN = 0 => loss_tmp = 0

\* the processes that have left the training loop
Departed == {q \in Ranks : procs[q].pc \in {"done", "failed"}}

\* C20: in distributed mode the processes fire the same number of logical
\* steps in every epoch and in total, no process is inside an all-reduce
\* that a process which has left the loop never entered, and every process
\* eventually leaves the loop.
C20_AllRanksSynchronise ==
    /\ [](\A r \in Ranks, q \in Ranks :
            /\ procs[r].pc = "allreduce" /\ q \in Departed
                  => procs[q].syncs >= procs[r].syncs
            /\ \A e \in DOMAIN procs[r].epochFires :
                  e \in DOMAIN procs[q].epochFires
                      => procs[r].epochFires[e] = procs[q].epochFires[e]
            /\ procs[r].pc = "done" /\ procs[q].pc = "done"
                  => /\ procs[r].fires = procs[q].fires
                     /\ procs[r].syncs = procs[q].syncs)
    /\ <>(Departed = Ranks)

\* C20 witness: two processes have left the loop after two epochs with at
\* least two fires and a trailing micro-batch that did not fire.
C20_Witness ==
    /\ pc = "Distributed"
    /\ \A r \in Ranks :
          /\ procs[r].pc = "done"
          /\ Len(procs[r].epochFires) = 2
          /\ procs[r].fires >= 2
          /\ procs[r].syncs > K * procs[r].fires

\* C21: every optimizer step is given the gradients of exactly K
\* micro-batches, all of the epoch it runs in; inside an epoch the buffer
\* holds only the micro-batches of this epoch since its last fire, so the
\* trailing micro-batches of an epoch whose length is not a multiple of K are
\* cleared at the next epoch start, and at the end of the run they are still
\* unapplied: the parameters were stepped on K micro-batches per fire only.
C21_StepAppliesCurrentEpochOnly ==
    K >= 1 =>
        /\ fires > 0 => /\ stepped.n = K
                        /\ stepped.epochs = {stepped.epoch}
        /\ pc = "MicroStep" => /\ grads = step % K
                               /\ bufEpochs \subseteq {epochId}
        /\ pc \in {"Epoch", "Done"} /\ epochId > 0 =>
              /\ grads = NumBatches % K
              /\ K * fires = processed - epochId * (NumBatches % K)

\* C21 witness: K = 2 and three micro-batches per epoch; the second epoch has
\* fired on its own two micro-batches after the trailing one of the first
\* epoch was cleared, and the run has ended with a trailing one unapplied.
C21_Witness ==
    /\ pc = "Done"
    /\ K = 2
    /\ NumBatches = 3
    /\ epochId = 2
    /\ fires = 2
    /\ processed = 6
    /\ grads = 1
    /\ stepped.n = 2
    /\ stepped.epochs = {1}

\* C22 as stated: a configuration that passes the accumulation check has a
\* micro-batch size of at least 1 and a planned optimizer-step count of at
\* least 1, and neither the planned-step computation nor the progress
\* computation at a fire divides by zero.
C22_NoZeroDivisor ==
    /\ pc = "Checked" => args.train_batch_size >= 1
    /\ pc \in {"Loaded", "Idle"} \cup LoopPcs
          => num_train_optimization_steps >= 1
    /\ pc = "Failed" /\ error.at \in {"LoadDatasets", "Fire"}
          => error.type # "ZeroDivisionError"
====
